---- MODULE Spec2Model ----
(***************************************************************************)
(* Model of src/app.py: the psycopg2 connection pool and the OpenAI client *)
(* of the Flask backend, their creation at import time (startup_sequence)  *)
(* and their use by the request handlers.                                  *)
(*                                                                         *)
(* Thread 0 is the importing (main) thread, which runs startup_sequence.   *)
(* Threads 1..NumThreads are the server's worker threads, each serving one *)
(* request at a time once the import has finished.                         *)
(*                                                                         *)
(* Library calls that talk to the database server or to the AI service     *)
(* (ThreadedConnectionPool(...), getconn, cursor/execute/commit/rollback,  *)
(* OpenAI(...), chat.completions.create) either succeed or raise; local    *)
(* bookkeeping calls (conn.close, cursor.close, putconn, logging) return.  *)
(*                                                                         *)
(* Two further parts stand beside this pool model, each with its own       *)
(* variables and specifications: the module configuration of lines 64-79   *)
(* (runs), and what send_message, delete_chat and get_messages read and    *)
(* write in the chats and messages tables (messages, clock, txn, chats).   *)
(***************************************************************************)
EXTENDS Integers, Sequences, FiniteSets, TLC

\* ------------------------------------------------------------------ bounds
\* Size of the pool in the model (maxconn is 20 at src/app.py:173).
MaxConn == 1
\* Largest `retries` / `delay` argument create_db_pool is called with when it
\* is checked as a function of its arguments (SpecCreatePool).
MaxRetriesArg == 3
MaxDelayArg == 2
\* Longest DATABASE_URL considered, in tokens.
MaxUrlLen == 4
\* Rows the history query returns at most (LIMIT 10 at src/app.py:791).
HistoryLimit == 3
\* send_message requests that store a message, in all (SpecHistory,
\* SpecOwnership).
MaxRequests == 3

\* ----------------------------------------------------- program constants
\* def create_db_pool(retries=3, delay=2)
DefaultRetries == 3
DefaultDelay == 2
\* max_tokens=1000 in send_message's chat.completions.create call
MaxTokens == 1000
\* Python's None, for the handles and the local `conn`.
None == 0
\* The values bound to db_pool and openai_client when they are not None: a
\* ThreadedConnectionPool object, an OpenAI client object.
PoolObject == 1
ClientObject == 1

\* One more worker than the pool has connections, so that it can run out.
NumThreads == MaxConn + 1
Workers == 1..NumThreads
AllThreads == 0..NumThreads
Main == 0

\* Values of the two environment variables: unset, set to the empty string,
\* or set to a usable value.
EnvValues == {"<unset>", "", "<value>"}
\* Python truthiness of os.environ.get(...): None and '' are false.
Truthy(v) == v \notin {"<unset>", ""}

VARIABLES
    DATABASE_URL,      \* module global, src/app.py:64
    OPENAI_API_KEY,    \* module global, src/app.py:75
    db_pool,           \* module global: None or a pool object
    openai_client,     \* module global: None or a client object
    pools_created,     \* create_db_pool: pool objects this call constructed
    clients_created,   \* number of OpenAI client objects constructed
    used,              \* connections checked out of db_pool (pool._used)
    pc,                \* per thread: where it is
    conn,              \* per thread: the handler's local `conn` (None or id)
    getcount,          \* per thread: connections the running function obtained
    putcount,          \* per thread: connections the running function gave back
    resp,              \* per thread: what the current function returned
    ai_calls,          \* per thread: calls made to the AI service
    endpoint,          \* per thread: the view function serving the request
    retries, delay,    \* create_db_pool: its arguments
    attempt,           \* create_db_pool: the loop variable
    tries,             \* create_db_pool: try blocks entered
    failures,          \* create_db_pool: except blocks entered
    sleeps,            \* create_db_pool: the time.sleep arguments, in order
    probe,             \* create_db_pool: calls made on the newest pool
    result,            \* create_db_pool: "pending", or what it returned,
                       \* "None" or "pool", until startup_sequence ends
    runs,              \* per process run compared: its environment, the
                       \* module configuration computed from it, its log
    messages,          \* the committed rows of the messages table, as inserted
    clock,             \* the database server's time
    txn,               \* per worker: the transaction of its send_message
    chats              \* the committed rows of the chats table, by id

\* What no action of the running program changes: its configuration, and the
\* variables of the configuration model and of the message-history model.
histvars == <<messages, clock, txn, chats>>
auxvars == <<runs, histvars>>
cfgvars == <<DATABASE_URL, OPENAI_API_KEY, auxvars>>
poolvars == <<db_pool, pools_created, used>>
clientvars == <<openai_client, clients_created>>
reqvars == <<conn, getcount, putcount, resp, ai_calls, endpoint>>
cpvars == <<retries, delay, attempt, tries, failures, sleeps, probe, result>>
vars == <<cfgvars, poolvars, clientvars, pc, reqvars, cpvars>>

NoResp == [status |-> 0, body |-> "", log |-> ""]
Response(st, b, l) == [status |-> st, body |-> b, log |-> l]

Goto(t, label) == pc' = [pc EXCEPT ![t] = label]

\* ------------------------------------------------------ create_db_pool
\* Mutant: the `if not DATABASE_URL` early return left out.
create_db_pool_guard_nocheck ==
    /\ pc[Main] = "create_db_pool"
    /\ result' = result
    /\ Goto(Main, "cp_for")
    /\ UNCHANGED <<cfgvars, poolvars, clientvars, reqvars>>
    /\ UNCHANGED <<retries, delay, attempt, tries, failures, sleeps, probe>>

\* if not DATABASE_URL: warn and return None; otherwise enter the for loop.
create_db_pool_guard ==
    /\ pc[Main] = "create_db_pool"
    /\ IF ~Truthy(DATABASE_URL)
          THEN /\ result' = "None"
               /\ Goto(Main, "cp_returned")
          ELSE /\ result' = result
               /\ Goto(Main, "cp_for")
    /\ UNCHANGED <<cfgvars, poolvars, clientvars, reqvars>>
    /\ UNCHANGED <<retries, delay, attempt, tries, failures, sleeps, probe>>

\* for attempt in range(1, retries + 1): the next value, or the end of the
\* loop, after which the function falls off its end and returns None.
create_db_pool_for ==
    /\ pc[Main] = "cp_for"
    /\ IF attempt < retries
          THEN /\ attempt' = attempt + 1
               /\ tries' = tries + 1
               /\ result' = result
               /\ Goto(Main, "cp_construct")
          ELSE /\ result' = "None"
               /\ Goto(Main, "cp_returned")
               /\ UNCHANGED <<attempt, tries>>
    /\ UNCHANGED <<cfgvars, poolvars, clientvars, reqvars>>
    /\ UNCHANGED <<retries, delay, failures, sleeps, probe>>

\* Mutant: the pool is returned as soon as it is constructed, unprobed.
create_db_pool_construct_noprobe ==
    /\ pc[Main] = "cp_construct"
    /\ \/ /\ pools_created' = pools_created + 1
          /\ db_pool' = PoolObject
          /\ used' = {}
          /\ probe' = <<>>
          /\ result' = "pool"
          /\ Goto(Main, "cp_returned")
       \/ /\ Goto(Main, "cp_except")
          /\ UNCHANGED <<poolvars, probe, result>>
    /\ UNCHANGED <<cfgvars, clientvars, reqvars>>
    /\ UNCHANGED <<retries, delay, attempt, tries, failures, sleeps>>

\* db_pool = psycopg2.pool.ThreadedConnectionPool(1, 20, DATABASE_URL, ...):
\* a new pool object bound to the global, or an exception with the global
\* left as it was.
create_db_pool_construct ==
    /\ pc[Main] = "cp_construct"
    /\ \/ /\ pools_created' = pools_created + 1
          /\ db_pool' = PoolObject
          /\ used' = {}
          /\ probe' = <<>>
          /\ Goto(Main, "cp_getconn")
       \/ /\ Goto(Main, "cp_except")
          /\ UNCHANGED <<poolvars, probe>>
    /\ UNCHANGED <<cfgvars, clientvars, reqvars>>
    /\ UNCHANGED <<retries, delay, attempt, tries, failures, sleeps, result>>

\* conn = db_pool.getconn()
create_db_pool_getconn ==
    /\ pc[Main] = "cp_getconn"
    /\ \/ /\ used' = used \cup {1}
          /\ conn' = [conn EXCEPT ![Main] = 1]
          /\ probe' = Append(probe, "getconn")
          /\ Goto(Main, "cp_close")
       \/ /\ Goto(Main, "cp_except")
          /\ UNCHANGED <<used, conn, probe>>
    /\ UNCHANGED <<cfgvars, db_pool, pools_created, clientvars>>
    /\ UNCHANGED <<getcount, putcount, resp, ai_calls, endpoint>>
    /\ UNCHANGED <<retries, delay, attempt, tries, failures, sleeps, result>>

\* conn.close()
create_db_pool_close ==
    /\ pc[Main] = "cp_close"
    /\ probe' = Append(probe, "close")
    /\ Goto(Main, "cp_putconn")
    /\ UNCHANGED <<cfgvars, poolvars, clientvars, reqvars>>
    /\ UNCHANGED <<retries, delay, attempt, tries, failures, sleeps, result>>

\* db_pool.putconn(conn); log; return db_pool
create_db_pool_putconn ==
    /\ pc[Main] = "cp_putconn"
    /\ used' = used \ {conn[Main]}
    /\ probe' = Append(probe, "putconn")
    /\ result' = "pool"
    /\ Goto(Main, "cp_returned")
    /\ UNCHANGED <<cfgvars, db_pool, pools_created, clientvars, reqvars>>
    /\ UNCHANGED <<retries, delay, attempt, tries, failures, sleeps>>

\* Mutant: the except block gives up at the first failure.
create_db_pool_except_noretry ==
    /\ pc[Main] = "cp_except"
    /\ failures' = failures + 1
    /\ result' = "None"
    /\ Goto(Main, "cp_returned")
    /\ UNCHANGED <<cfgvars, poolvars, clientvars, reqvars>>
    /\ UNCHANGED <<retries, delay, attempt, tries, sleeps, probe>>

\* Mutant: the except block sleeps delay * 2^(attempt - 1) (a doubling wait).
create_db_pool_except_backoff ==
    /\ pc[Main] = "cp_except"
    /\ failures' = failures + 1
    /\ IF attempt < retries
          THEN /\ sleeps' = Append(sleeps, delay * 2^(attempt - 1))
               /\ result' = result
               /\ Goto(Main, "cp_for")
          ELSE /\ result' = "None"
               /\ sleeps' = sleeps
               /\ Goto(Main, "cp_returned")
    /\ UNCHANGED <<cfgvars, poolvars, clientvars, reqvars>>
    /\ UNCHANGED <<retries, delay, attempt, tries, probe>>

\* except Exception: log; sleep(delay) and go round again if attempt < retries,
\* else log and return None.
create_db_pool_except ==
    /\ pc[Main] = "cp_except"
    /\ failures' = failures + 1
    /\ IF attempt < retries
          THEN /\ sleeps' = Append(sleeps, delay)
               /\ result' = result
               /\ Goto(Main, "cp_for")
          ELSE /\ result' = "None"
               /\ sleeps' = sleeps
               /\ Goto(Main, "cp_returned")
    /\ UNCHANGED <<cfgvars, poolvars, clientvars, reqvars>>
    /\ UNCHANGED <<retries, delay, attempt, tries, probe>>

create_db_pool ==
    \/ create_db_pool_guard
    \/ create_db_pool_for
    \/ create_db_pool_construct
    \/ create_db_pool_getconn
    \/ create_db_pool_close
    \/ create_db_pool_putconn
    \/ create_db_pool_except

\* --------------------------------------------- initialize_openai_client
\* Mutant: the `if not OPENAI_API_KEY` early return left out.
initialize_openai_client_guard_nocheck ==
    /\ pc[Main] = "initialize_openai_client"
    /\ Goto(Main, "oc_construct")
    /\ UNCHANGED <<cfgvars, poolvars, clientvars, reqvars, cpvars>>

\* if not OPENAI_API_KEY: warn and return None.
initialize_openai_client_guard ==
    /\ pc[Main] = "initialize_openai_client"
    /\ IF ~Truthy(OPENAI_API_KEY)
          THEN Goto(Main, "oc_returned")
          ELSE Goto(Main, "oc_construct")
    /\ UNCHANGED <<cfgvars, poolvars, clientvars, reqvars, cpvars>>

\* try: httpx.Client(...); openai_client = OpenAI(api_key=..., http_client=...)
\* and return it; except TypeError / Exception: log and return None.
initialize_openai_client_construct ==
    /\ pc[Main] = "oc_construct"
    /\ \/ /\ clients_created' = clients_created + 1
          /\ openai_client' = ClientObject
       \/ UNCHANGED clientvars
    /\ Goto(Main, "oc_returned")
    /\ UNCHANGED <<cfgvars, poolvars, reqvars, cpvars>>

initialize_openai_client ==
    \/ initialize_openai_client_guard
    \/ initialize_openai_client_construct

\* ------------------------------------- get / release of a pooled connection
\* The connection getconn hands out: one that is not checked out.
FreeConn == CHOOSE c \in 1..MaxConn : c \notin used /\ \A d \in 1..MaxConn : d \notin used => c <= d

\* get_db_connection(): what the call can do in the current state. It raises
\* when db_pool is None, and getconn raises PoolError when maxconn connections
\* are checked out; below that it returns a connection, or raises when the
\* server cannot be reached for a new one.
get_db_connection ==
    IF db_pool = None
       THEN {[ok |-> FALSE, c |-> None, err |-> "Database pool not initialized"]}
       ELSE IF Cardinality(used) >= MaxConn
               THEN {[ok |-> FALSE, c |-> None, err |-> "connection pool exhausted"]}
               ELSE {[ok |-> TRUE, c |-> FreeConn, err |-> ""],
                     [ok |-> FALSE, c |-> None, err |-> "OperationalError"]}

\* Mutant: the connection is never given back to the pool.
release_db_connection_skip(t) ==
    UNCHANGED <<used, putcount>>

\* release_db_connection(conn): if db_pool and conn: db_pool.putconn(conn)
release_db_connection(t) ==
    IF db_pool # None /\ conn[t] # None
       THEN /\ used' = used \ {conn[t]}
            /\ putcount' = [putcount EXCEPT ![t] = @ + 1]
       ELSE UNCHANGED <<used, putcount>>

\* ------------------------------------------------- the handlers' template
\* token_required: the decorator answers 401 itself when the token is missing
\* or does not verify.
token_required(needs_token) ==
    IF needs_token
       THEN {Response(401, "Token missing", ""),
             Response(401, "Invalid or expired token", "")}
       ELSE {}

\* An exception that leaves the handler (one raised inside its except block):
\* the decorator's own except answers 401 for a token_required handler,
\* Flask's handle_exception answers 500 for the others.
Escaped(needs_token) ==
    IF needs_token
       THEN Response(401, "Invalid token", "Token verification error")
       ELSE Response(500, "An unexpected error occurred", "Unhandled exception")

\* The handler's  except Exception as e:  block: log, roll back when the
\* handler does and holds a connection, answer 500. The rollback can raise.
ExceptBlock(t, c, failbody, err, rolls_back, needs_token) ==
    {Response(500, failbody, err)}
    \cup (IF rolls_back /\ c # None THEN {Escaped(needs_token)} ELSE {})

\* Mutant: the handler without its `if not db_pool` answer; with no pool the
\* request goes on to get_db_connection(), which raises.
handler_enter_nopoolcheck(t, h, needs_token, invalid, failbody) ==
    /\ pc[t] = "idle"
    /\ pc[Main] = "ready"
    /\ endpoint' = [endpoint EXCEPT ![t] = h]
    /\ \/ \E r \in token_required(needs_token)
                   \cup invalid
                   \cup {Response(500, failbody, g.err) :
                           g \in {x \in get_db_connection : ~x.ok}} :
             /\ resp' = [resp EXCEPT ![t] = r]
             /\ Goto(t, "done")
             /\ UNCHANGED <<used, conn, getcount>>
       \/ \E g \in {x \in get_db_connection : x.ok} :
             /\ conn' = [conn EXCEPT ![t] = g.c]
             /\ getcount' = [getcount EXCEPT ![t] = @ + 1]
             /\ used' = used \cup {g.c}
             /\ Goto(t, h)
             /\ UNCHANGED resp
    /\ UNCHANGED <<cfgvars, db_pool, pools_created, clientvars, cpvars>>
    /\ UNCHANGED <<putcount, ai_calls>>

\* From the route to the point where the handler holds a connection:
\* the token check, the `if not db_pool` answer, reading and validating the
\* request (`invalid`: the 400 answer, and the 500 of the except block when
\* request.json or data.get raises), and get_db_connection().
handler_enter(t, h, needs_token, invalid, failbody) ==
    /\ pc[t] = "idle"
    /\ pc[Main] = "ready"
    /\ endpoint' = [endpoint EXCEPT ![t] = h]
    /\ \/ \E r \in token_required(needs_token)
                   \cup (IF db_pool = None
                            THEN {Response(503, "Database not available", "")}
                            ELSE invalid
                                 \cup {Response(500, failbody, g.err) :
                                         g \in {x \in get_db_connection : ~x.ok}}) :
             /\ resp' = [resp EXCEPT ![t] = r]
             /\ Goto(t, "done")
             /\ UNCHANGED <<used, conn, getcount>>
       \/ \E g \in {x \in get_db_connection : x.ok} :
             /\ conn' = [conn EXCEPT ![t] = g.c]
             /\ getcount' = [getcount EXCEPT ![t] = @ + 1]
             /\ used' = used \cup {g.c}
             /\ Goto(t, h)
             /\ UNCHANGED resp
    /\ UNCHANGED <<cfgvars, db_pool, pools_created, clientvars, cpvars>>
    /\ UNCHANGED <<putcount, ai_calls>>

\* The rest of the try block, with the connection held, then the finally
\* block: cursor.close() and release_db_connection(conn). `answers` are the
\* returns inside the try block (success and business errors).
handler_work(t, h, at, needs_token, answers, failbody, rolls_back) ==
    /\ pc[t] = at
    /\ \E r \in answers
               \cup ExceptBlock(t, conn[t], failbody, "database error", rolls_back, needs_token) :
          resp' = [resp EXCEPT ![t] = r]
    /\ release_db_connection(t)
    /\ conn' = [conn EXCEPT ![t] = None]
    /\ Goto(t, "done")
    /\ UNCHANGED <<cfgvars, db_pool, pools_created, clientvars, cpvars>>
    /\ UNCHANGED <<getcount, ai_calls, endpoint>>

\* The response has been sent: the worker thread is free for a next request.
finish(t) ==
    /\ pc[t] = "done"
    /\ Goto(t, "idle")
    /\ conn' = [conn EXCEPT ![t] = None]
    /\ getcount' = [getcount EXCEPT ![t] = 0]
    /\ putcount' = [putcount EXCEPT ![t] = 0]
    /\ resp' = [resp EXCEPT ![t] = NoResp]
    /\ ai_calls' = [ai_calls EXCEPT ![t] = 0]
    /\ endpoint' = [endpoint EXCEPT ![t] = ""]
    /\ UNCHANGED <<cfgvars, poolvars, clientvars, cpvars>>

\* ------------------------------------------------------------ handlers
register(t) ==
    \/ handler_enter(t, "register", FALSE,
                     {Response(400, "Missing required fields", ""),
                      Response(500, "Registration failed", "bad request body")},
                     "Registration failed")
    \/ handler_work(t, "register", "register", FALSE,
                    {Response(201, "User registered successfully", ""),
                     Response(409, "User already exists", "")},
                    "Registration failed", TRUE)

login(t) ==
    \/ handler_enter(t, "login", FALSE,
                     {Response(400, "Missing credentials", ""),
                      Response(500, "Login failed", "bad request body")},
                     "Login failed")
    \/ handler_work(t, "login", "login", FALSE,
                    {Response(200, "Login successful", ""),
                     Response(401, "Invalid credentials", "")},
                    "Login failed", FALSE)

get_chats(t) ==
    \/ handler_enter(t, "get_chats", TRUE, {}, "Failed to fetch chats")
    \/ handler_work(t, "get_chats", "get_chats", TRUE,
                    {Response(200, "chats", "")},
                    "Failed to fetch chats", FALSE)

create_chat(t) ==
    \/ handler_enter(t, "create_chat", TRUE,
                     {Response(500, "Failed to create chat", "bad request body")},
                     "Failed to create chat")
    \/ handler_work(t, "create_chat", "create_chat", TRUE,
                    {Response(201, "chat", "")},
                    "Failed to create chat", TRUE)

delete_chat(t) ==
    \/ handler_enter(t, "delete_chat", TRUE, {}, "Failed to delete chat")
    \/ handler_work(t, "delete_chat", "delete_chat", TRUE,
                    {Response(200, "Chat deleted successfully", ""),
                     Response(404, "Chat not found", "")},
                    "Failed to delete chat", TRUE)

get_messages(t) ==
    \/ handler_enter(t, "get_messages", TRUE, {}, "Failed to fetch messages")
    \/ handler_work(t, "get_messages", "get_messages", TRUE,
                    {Response(200, "messages", ""),
                     Response(404, "Chat not found", "")},
                    "Failed to fetch messages", FALSE)

\* Mutant: the connection is given back to the pool before the AI call.
send_message_work_release_early(t) ==
    /\ pc[t] = "send_message"
    /\ \/ /\ \E r \in {Response(404, "Chat not found", "")}
                      \cup (IF openai_client = None
                               THEN {Response(201, "AI features are currently unavailable.", "")}
                               ELSE {Response(201, "Sorry, I encountered an error processing your request.",
                                              "AI response error")})
                      \cup ExceptBlock(t, conn[t], "Failed to send message", "database error", TRUE, TRUE) :
                resp' = [resp EXCEPT ![t] = r]
          /\ release_db_connection(t)
          /\ conn' = [conn EXCEPT ![t] = None]
          /\ Goto(t, "done")
          /\ UNCHANGED ai_calls
       \/ /\ openai_client # None
          /\ ai_calls' = [ai_calls EXCEPT ![t] = @ + 1]
          /\ release_db_connection(t)
          /\ conn' = [conn EXCEPT ![t] = None]
          /\ Goto(t, "awaiting_ai")
          /\ UNCHANGED resp
    /\ UNCHANGED <<cfgvars, db_pool, pools_created, clientvars, cpvars, getcount, endpoint>>

\* send_message up to the AI call: ownership check, the user message, then
\* either the placeholder reply (no client), or the history query and the call
\* to the AI service, during which the connection stays checked out.
send_message_work(t) ==
    /\ pc[t] = "send_message"
    /\ \/ /\ \E r \in {Response(404, "Chat not found", "")}
                      \cup (IF openai_client = None
                               THEN {Response(201, "AI features are currently unavailable.", "")}
                               ELSE {Response(201, "Sorry, I encountered an error processing your request.",
                                              "AI response error")})
                      \cup ExceptBlock(t, conn[t], "Failed to send message", "database error", TRUE, TRUE) :
                resp' = [resp EXCEPT ![t] = r]
          /\ release_db_connection(t)
          /\ conn' = [conn EXCEPT ![t] = None]
          /\ Goto(t, "done")
          /\ UNCHANGED ai_calls
       \/ /\ openai_client # None
          /\ ai_calls' = [ai_calls EXCEPT ![t] = @ + 1]
          /\ Goto(t, "awaiting_ai")
          /\ UNCHANGED <<used, conn, putcount, resp>>
    /\ UNCHANGED <<cfgvars, db_pool, pools_created, clientvars, cpvars, getcount, endpoint>>

\* Mutant: a failed AI call is made a second time before the handler answers.
send_message_ai_retry(t) ==
    /\ pc[t] = "awaiting_ai"
    /\ \/ /\ \E r \in {Response(201, "<completion>", ""),
                       Response(201, "Sorry, I encountered an error processing your request.",
                                "AI response error")} :
                resp' = [resp EXCEPT ![t] = r]
          /\ release_db_connection(t)
          /\ conn' = [conn EXCEPT ![t] = None]
          /\ Goto(t, "done")
          /\ UNCHANGED ai_calls
       \/ /\ ai_calls[t] < 2
          /\ ai_calls' = [ai_calls EXCEPT ![t] = @ + 1]
          /\ UNCHANGED <<used, putcount, conn, resp, pc>>
    /\ UNCHANGED <<cfgvars, db_pool, pools_created, clientvars, cpvars, getcount, endpoint>>

\* Mutant: a failed AI call is swallowed: 201 with ai_response None, no log.
send_message_ai_swallow(t) ==
    /\ pc[t] = "awaiting_ai"
    /\ \E r \in {Response(201, "<completion>", ""), Response(201, "", "")}
                \cup ExceptBlock(t, conn[t], "Failed to send message", "database error", TRUE, TRUE) :
          resp' = [resp EXCEPT ![t] = r]
    /\ release_db_connection(t)
    /\ conn' = [conn EXCEPT ![t] = None]
    /\ Goto(t, "done")
    /\ UNCHANGED <<cfgvars, db_pool, pools_created, clientvars, cpvars, getcount, ai_calls, endpoint>>

\* Mutant: a finished AI call clears the global client.
send_message_ai_dropclient(t) ==
    /\ pc[t] = "awaiting_ai"
    /\ \E r \in {Response(201, "<completion>", ""),
                 Response(201, "Sorry, I encountered an error processing your request.",
                          "AI response error")} :
          resp' = [resp EXCEPT ![t] = r]
    /\ openai_client' = None
    /\ release_db_connection(t)
    /\ conn' = [conn EXCEPT ![t] = None]
    /\ Goto(t, "done")
    /\ UNCHANGED <<cfgvars, db_pool, pools_created, clients_created, cpvars, getcount, ai_calls, endpoint>>

\* openai_client.chat.completions.create(...) returns or raises; the reply or
\* the error placeholder is stored, the transaction committed, the lease
\* released in the finally block.
send_message_ai(t) ==
    /\ pc[t] = "awaiting_ai"
    /\ \E r \in {Response(201, "<completion>", ""),
                 Response(201, "Sorry, I encountered an error processing your request.",
                          "AI response error")}
                \cup ExceptBlock(t, conn[t], "Failed to send message", "database error", TRUE, TRUE) :
          resp' = [resp EXCEPT ![t] = r]
    /\ release_db_connection(t)
    /\ conn' = [conn EXCEPT ![t] = None]
    /\ Goto(t, "done")
    /\ UNCHANGED <<cfgvars, db_pool, pools_created, clientvars, cpvars, getcount, ai_calls, endpoint>>

send_message(t) ==
    \/ handler_enter(t, "send_message", TRUE,
                     {Response(400, "Message content required", ""),
                      Response(500, "Failed to send message", "bad request body")},
                     "Failed to send message")
    \/ send_message_work(t)
    \/ send_message_ai(t)

\* The view function routed at / and /health (the first def health_check).
health_check_route(t) ==
    /\ pc[t] = "idle"
    /\ pc[Main] = "ready"
    /\ resp' = [resp EXCEPT ![t] = Response(200, "healthy", "Flask API is running")]
    /\ Goto(t, "done")
    /\ endpoint' = [endpoint EXCEPT ![t] = "health_check_route"]
    /\ UNCHANGED <<cfgvars, poolvars, clientvars, cpvars, conn, getcount, putcount, ai_calls>>

\* The second def health_check (no route): the services report and the
\* database probe. The probe has a try/except and no finally: the release is
\* the last statement of the try block.
health_check(t) ==
    \/ /\ pc[t] = "idle"
       /\ pc[Main] = "ready"
       /\ endpoint' = [endpoint EXCEPT ![t] = "health_check"]
       /\ \/ \E r \in IF db_pool = None
                         THEN {Response(200, "healthy", "database: disconnected")}
                         ELSE {Response(200, "degraded", "database: unhealthy: " \o g.err) :
                                 g \in {x \in get_db_connection : ~x.ok}} :
                /\ resp' = [resp EXCEPT ![t] = r]
                /\ Goto(t, "done")
                /\ UNCHANGED <<used, conn, getcount>>
          \/ \E g \in {x \in get_db_connection : x.ok} :
                /\ conn' = [conn EXCEPT ![t] = g.c]
                /\ getcount' = [getcount EXCEPT ![t] = @ + 1]
                /\ used' = used \cup {g.c}
                /\ Goto(t, "health_check")
                /\ UNCHANGED resp
       /\ UNCHANGED <<cfgvars, db_pool, pools_created, clientvars, cpvars>>
       /\ UNCHANGED <<putcount, ai_calls>>
    \/ /\ pc[t] = "health_check"
       /\ \/ /\ release_db_connection(t)
             /\ resp' = [resp EXCEPT ![t] = Response(200, "healthy", "database: healthy")]
          \/ /\ resp' = [resp EXCEPT ![t] =
                            Response(200, "degraded", "database: unhealthy: database error")]
             /\ UNCHANGED <<used, putcount>>
       /\ conn' = [conn EXCEPT ![t] = None]
       /\ Goto(t, "done")
       /\ UNCHANGED <<cfgvars, db_pool, pools_created, clientvars, cpvars>>
       /\ UNCHANGED <<getcount, ai_calls, endpoint>>

\* ------------------------------------------------- initialize_database
\* Called by startup_sequence on the main thread. `if not db_pool` returns
\* False; otherwise the tables are created inside try/except/finally.
initialize_database ==
    \/ /\ pc[Main] = "initialize_database"
       /\ \/ \E r \in IF db_pool = None
                         THEN {Response(0, "False", "")}
                         ELSE {Response(0, "False", g.err) :
                                 g \in {x \in get_db_connection : ~x.ok}} :
                /\ resp' = [resp EXCEPT ![Main] = r]
                /\ Goto(Main, "initialize_database_returned")
                /\ UNCHANGED <<used, conn, getcount>>
          \/ \E g \in {x \in get_db_connection : x.ok} :
                /\ conn' = [conn EXCEPT ![Main] = g.c]
                /\ getcount' = [getcount EXCEPT ![Main] = @ + 1]
                /\ used' = used \cup {g.c}
                /\ Goto(Main, "in_initialize_database")
                /\ UNCHANGED resp
       /\ UNCHANGED <<cfgvars, db_pool, pools_created, clientvars, cpvars>>
       /\ UNCHANGED <<putcount, ai_calls, endpoint>>
    \/ /\ pc[Main] = "in_initialize_database"
       /\ \E r \in {Response(0, "True", ""),
                    Response(0, "False", "database error"),
                    Response(0, "raised", "database error")} :
             resp' = [resp EXCEPT ![Main] = r]
       /\ release_db_connection(Main)
       /\ conn' = [conn EXCEPT ![Main] = None]
       /\ Goto(Main, "initialize_database_returned")
       /\ UNCHANGED <<cfgvars, db_pool, pools_created, clientvars, cpvars>>
       /\ UNCHANGED <<getcount, ai_calls, endpoint>>

\* ----------------------------------------------------- startup_sequence
\* initialize_services: create_db_pool() with its default arguments ...
initialize_services ==
    /\ pc[Main] = "startup_sequence"
    /\ retries' = DefaultRetries
    /\ delay' = DefaultDelay
    /\ Goto(Main, "create_db_pool")
    /\ UNCHANGED <<cfgvars, poolvars, clientvars, reqvars>>
    /\ UNCHANGED <<attempt, tries, failures, sleeps, probe, result>>

\* ... whose return value is dropped and whose frame is gone; then
\* initialize_openai_client().
initialize_services_client ==
    /\ pc[Main] = "cp_returned"
    /\ retries' = 0
    /\ delay' = 0
    /\ attempt' = 0
    /\ tries' = 0
    /\ failures' = 0
    /\ sleeps' = <<>>
    /\ probe' = <<>>
    /\ pools_created' = 0
    /\ conn' = [conn EXCEPT ![Main] = None]
    /\ Goto(Main, "initialize_openai_client")
    /\ UNCHANGED <<cfgvars, db_pool, used, clientvars, getcount, putcount, resp, ai_calls, endpoint, result>>

\* if db_pool: initialize_database(); otherwise the import is complete.
startup_sequence_tables ==
    /\ pc[Main] = "oc_returned"
    /\ IF db_pool # None
          THEN /\ Goto(Main, "initialize_database")
               /\ result' = result
          ELSE /\ Goto(Main, "ready")
               /\ result' = "pending"
    /\ UNCHANGED <<cfgvars, poolvars, clientvars, reqvars>>
    /\ UNCHANGED <<retries, delay, attempt, tries, failures, sleeps, probe>>

\* initialize_database returned True or False, or raised into the except
\* block of startup_sequence, which logs it: the import is complete.
startup_sequence_ready ==
    /\ pc[Main] = "initialize_database_returned"
    /\ getcount' = [getcount EXCEPT ![Main] = 0]
    /\ putcount' = [putcount EXCEPT ![Main] = 0]
    /\ UNCHANGED conn
    /\ resp' = [resp EXCEPT ![Main] = NoResp]
    /\ result' = "pending"
    /\ Goto(Main, "ready")
    /\ UNCHANGED <<cfgvars, poolvars, clientvars, ai_calls, endpoint>>
    /\ UNCHANGED <<retries, delay, attempt, tries, failures, sleeps, probe>>

startup_sequence ==
    \/ initialize_services
    \/ create_db_pool
    \/ initialize_services_client
    \/ initialize_openai_client
    \/ startup_sequence_tables
    \/ initialize_database
    \/ startup_sequence_ready

\* A request Flask can dispatch: one of the routed view functions.
request(t) ==
    \/ health_check_route(t)
    \/ register(t)
    \/ login(t)
    \/ get_chats(t)
    \/ create_chat(t)
    \/ delete_chat(t)
    \/ get_messages(t)
    \/ send_message(t)
    \/ finish(t)

\* ------------------------------------------------------ specifications
InitCommon ==
    /\ db_pool = None
    /\ openai_client = None
    /\ pools_created = 0
    /\ clients_created = 0
    /\ used = {}
    /\ conn = [t \in AllThreads |-> None]
    /\ getcount = [t \in AllThreads |-> 0]
    /\ putcount = [t \in AllThreads |-> 0]
    /\ resp = [t \in AllThreads |-> NoResp]
    /\ ai_calls = [t \in AllThreads |-> 0]
    /\ endpoint = [t \in AllThreads |-> ""]
    /\ attempt = 0
    /\ tries = 0
    /\ failures = 0
    /\ sleeps = <<>>
    /\ probe = <<>>
    /\ result = "pending"

\* create_db_pool(retries, delay) called on its own, with any arguments.
InitCreatePool ==
    /\ InitCommon
    /\ DATABASE_URL \in EnvValues
    /\ OPENAI_API_KEY \in EnvValues
    /\ retries \in 0..MaxRetriesArg
    /\ delay \in 1..MaxDelayArg
    /\ runs = <<>>
    /\ messages = <<>> /\ clock = 0 /\ txn = <<>> /\ chats = <<>>
    /\ pc = [t \in AllThreads |-> IF t = Main THEN "create_db_pool" ELSE "idle"]

SpecCreatePool == InitCreatePool /\ [][create_db_pool]_vars

\* The program: the module is imported with some environment, then serves.
Init ==
    /\ InitCommon
    /\ DATABASE_URL \in EnvValues
    /\ OPENAI_API_KEY \in EnvValues
    /\ retries = 0
    /\ delay = 0
    /\ runs = <<>>
    /\ messages = <<>> /\ clock = 0 /\ txn = <<>> /\ chats = <<>>
    /\ pc = [t \in AllThreads |-> IF t = Main THEN "startup_sequence" ELSE "idle"]

Next ==
    \/ startup_sequence
    \/ \E t \in Workers : request(t)

Spec == Init /\ [][Next]_vars

\* The program, and callers of the module that also call the unrouted
\* health_check function.
NextDirect ==
    \/ Next
    \/ \E t \in Workers : health_check(t)

SpecDirect == Init /\ [][NextDirect]_vars

\* ------------------------------------------ the SQLAlchemy view functions
\* str(e) of the exceptions the model raises: the pool's and the driver's
\* errors, a failed statement, an unreadable request body.
ExceptionText ==
    {"Database pool not initialized", "connection pool exhausted",
     "OperationalError", "database error", "bad request body"}

\* What db.engine.connect(), a query, db.create_all() or db.session.commit()
\* can raise.
OrmErrors == {"OperationalError", "database error"}

\* A view function that works through the SQLAlchemy `db` object inside
\* try/except: the 200 answer when there is a database to reach, and in the
\* except block  return jsonify({'status': 'error', 'error': str(e)}), 500.
\* add_sample_data calls db.session.rollback() first, which can raise.
orm_view(t, h, ok, logline, rolls_back) ==
    /\ pc[t] = "idle"
    /\ pc[Main] = "ready"
    /\ endpoint' = [endpoint EXCEPT ![t] = h]
    /\ \E r \in (IF Truthy(DATABASE_URL) THEN {Response(200, ok, "")} ELSE {})
                \cup {Response(500, e, logline) : e \in OrmErrors}
                \cup (IF rolls_back THEN {Escaped(FALSE)} ELSE {}) :
          resp' = [resp EXCEPT ![t] = r]
    /\ Goto(t, "done")
    /\ UNCHANGED <<cfgvars, poolvars, clientvars, cpvars, conn, getcount, putcount, ai_calls>>

check_db(t) == orm_view(t, "check_db", "connected", "Database check failed", FALSE)

init_database_endpoint(t) ==
    orm_view(t, "init_database_endpoint", "success", "Blad inicjalizacji bazy", FALSE)

add_sample_data(t) ==
    orm_view(t, "add_sample_data", "success", "Blad dodawania danych testowych", TRUE)

\* The program with the SQLAlchemy view functions among its requests.
NextOrm ==
    \/ Next
    \/ \E t \in Workers : check_db(t)
    \/ \E t \in Workers : init_database_endpoint(t)
    \/ \E t \in Workers : add_sample_data(t)

SpecOrm == Init /\ [][NextOrm]_vars

\* ------------------------------------------- the module configuration
\* src/app.py:64-79, run at import before anything else. Strings whose
\* content matters are sequences of tokens; a match of 'postgres://' can only
\* begin at a "postgres" token, so matching tokens is matching characters.
UrlAlphabet == {"postgres", "ql", "://", "a", "b"}
Strings == UNION {[1..n -> UrlAlphabet] : n \in 0..MaxUrlLen}

\* os.environ.get(name) of a variable that is not set.
NoneStr == <<"<unset>">>
TruthyStr(v) == v \notin {NoneStr, <<>>}

\* str.startswith, str.find (0 when there is no occurrence) and
\* str.replace(old, new, count), count = -1 for no limit.
startswith(v, prefix) ==
    Len(v) >= Len(prefix) /\ SubSeq(v, 1, Len(prefix)) = prefix

find(v, old) ==
    LET at == {i \in 1..Len(v) : startswith(SubSeq(v, i, Len(v)), old)}
    IN  IF at = {} THEN 0 ELSE CHOOSE i \in at : \A j \in at : i <= j

RECURSIVE replace(_, _, _, _)
replace(v, old, new, count) ==
    IF count = 0 \/ find(v, old) = 0
       THEN v
       ELSE SubSeq(v, 1, find(v, old) - 1) \o new
            \o replace(SubSeq(v, find(v, old) + Len(old), Len(v)), old, new, count - 1)

Legacy == <<"postgres", "://">>
Current == <<"postgres", "ql", "://">>

\* The rewrite with the count argument left out: every occurrence replaced.
fix_database_url_replace_all(url) ==
    IF startswith(url, Legacy) THEN replace(url, Legacy, Current, -1) ELSE url

\* if DATABASE_URL.startswith('postgres://'):
\*     DATABASE_URL = DATABASE_URL.replace('postgres://', 'postgresql://', 1)
fix_database_url(url) ==
    IF startswith(url, Legacy) THEN replace(url, Legacy, Current, 1) ELSE url

\* What the driver's exception says when the database cannot be reached:
\* psycopg2 passes libpq's message on, which names the host it was given
\* (the whole string when it has no scheme), or reports a timeout.
ErrKinds == {"timeout", "unknown host"}

str_e(url, kind) ==
    IF kind = "timeout"
       THEN <<"timeout expired">>
       ELSE <<"could not translate host name">>
            \o (IF find(url, <<"://">>) = 0 THEN url
                ELSE SubSeq(url, find(url, <<"://">>) + 1, Len(url)))

\* A process run: the environment it is started in, the module globals set
\* from it, the lines it has logged, the answer of its /status.
Run(url, key, kind) ==
    [env_url |-> url, env_key |-> key, err |-> kind,
     DATABASE_URL |-> NoneStr, OPENAI_API_KEY |-> NoneStr,
     log |-> <<>>, at |-> "import", status |-> <<>>]

\* The variables of the pool model, which the configuration model leaves alone.
progvars == <<DATABASE_URL, OPENAI_API_KEY, poolvars, clientvars, pc, reqvars, cpvars>>

\* src/app.py:64-79: DATABASE_URL and OPENAI_API_KEY are read, the URL is
\* rewritten, presence is logged.
configure(r) ==
    /\ runs[r].at = "import"
    /\ LET url == runs[r].env_url
           key == runs[r].env_key
       IN  runs' = [runs EXCEPT
               ![r].DATABASE_URL = IF TruthyStr(url) THEN fix_database_url(url) ELSE url,
               ![r].OPENAI_API_KEY = key,
               ![r].log = @
                   \o (IF TruthyStr(url)
                         THEN (IF startswith(url, Legacy)
                                  THEN << <<"Fixed DATABASE_URL format: postgres:// -> postgresql://">> >>
                                  ELSE <<>>)
                              \o << <<"DATABASE_URL: SET">> >>
                         ELSE << <<"DATABASE_URL: NOT SET - Database features will be disabled">> >>)
                   \o (IF TruthyStr(key)
                         THEN << <<"OPENAI_API_KEY: SET">> >>
                         ELSE << <<"OPENAI_API_KEY: NOT SET - AI features will be disabled">> >>),
               ![r].at = "configured"]
    /\ UNCHANGED <<progvars, histvars>>

\* create_db_pool's log lines when the database cannot be reached: the
\* warning of the early return, or logger.error(f"Database connection attempt
\* {attempt} failed: {str(e)}") of the except block.
log_attempt_failed(r) ==
    /\ runs[r].at = "configured"
    /\ runs' = [runs EXCEPT
           ![r].log = Append(@,
               IF ~TruthyStr(runs[r].DATABASE_URL)
                  THEN <<"Database URL not configured - skipping pool creation">>
                  ELSE <<"Database connection attempt failed: ">>
                       \o str_e(runs[r].DATABASE_URL, runs[r].err)),
           ![r].at = "started"]
    /\ UNCHANGED <<progvars, histvars>>

\* GET /status: 'database_configured': bool(DATABASE_URL),
\* 'openai_configured': bool(OPENAI_API_KEY).
status(r) ==
    /\ runs[r].at = "started"
    /\ runs' = [runs EXCEPT
           ![r].status = <<TruthyStr(runs[r].DATABASE_URL), TruthyStr(runs[r].OPENAI_API_KEY)>>,
           ![r].at = "served"]
    /\ UNCHANGED <<progvars, histvars>>

NextConfig ==
    \/ \E r \in DOMAIN runs : configure(r)
    \/ \E r \in DOMAIN runs : log_attempt_failed(r)
    \/ \E r \in DOMAIN runs : status(r)

InitConfig ==
    /\ InitCommon
    /\ DATABASE_URL = "<unset>"
    /\ OPENAI_API_KEY = "<unset>"
    /\ retries = 0
    /\ delay = 0
    /\ pc = [t \in AllThreads |-> "idle"]

InitNoHistory == messages = <<>> /\ clock = 0 /\ txn = <<>> /\ chats = <<>>

\* One run, started with any DATABASE_URL.
InitNormalize ==
    /\ InitConfig
    /\ InitNoHistory
    /\ \E url \in Strings \cup {NoneStr} :
          runs = [r \in {1} |-> Run(url, NoneStr, "timeout")]

SpecNormalize == InitNormalize /\ [][NextConfig]_vars

\* Two runs side by side, each with its own secrets.
SecretUrls ==
    {<<"postgres", "://", "a">>, <<"postgres", "ql", "://", "a">>,
     <<"postgres", "ql", "://", "b">>}
SecretKeys == {<<"a">>, <<"b">>}

InitSecrets ==
    /\ InitConfig
    /\ InitNoHistory
    /\ runs \in [{1, 2} -> {Run(url, key, kind) :
                               url \in SecretUrls \cup {NoneStr},
                               key \in SecretKeys \cup {NoneStr},
                               kind \in ErrKinds}]

SpecSecrets == InitSecrets /\ [][NextConfig]_vars

\* ------------------------------------ send_message and the messages table
\* What send_message reads from and writes to the messages table when the
\* pool and the client are Ready (its connection lease is in the pool model
\* above). A row's created_at is DEFAULT CURRENT_TIMESTAMP (src/app.py:303),
\* the start time of the inserting transaction; psycopg2 opens the
\* transaction at the handler's first execute.
Chats == {1, 2}

\* chats.title: the default create_chat gives a chat, or any other title.
Titles == {"New Chat", "<title>"}

\* messages.content: the request's message, the completion of the AI service,
\* or the text stored when the call failed.
ErrorPlaceholder == "Sorry, I encountered an error processing your request."

Row(c, role, content, ts) ==
    [chat |-> c, role |-> role, content |-> content, created_at |-> ts]

\* The users that hold a token; chats.user_id is one of them.
Users == {1, 2}

\* The handler's arguments and locals: the view function, user_id (from the
\* token) and chat_id (from the URL), chat['title'] as the ownership SELECT
\* read it, message_content (is_str: whether the JSON value is a string), the
\* rows its transaction has inserted, the arguments of the call to the AI
\* service, and the status it answered with (0: none yet).
NoTxn ==
    [at |-> "idle", endpoint |-> "", user |-> 0, chat |-> 0, status |-> 0,
     title |-> "", is_str |-> TRUE, start |-> 0,
     rows |-> <<>>, sent |-> <<>>, max_tokens |-> 0]

\* The handler has returned status st without leaving anything in its
\* transaction.
Answer(h, u, c, st) ==
    [NoTxn EXCEPT !.at = "done", !.endpoint = h, !.user = u, !.chat = c,
                  !.status = st]

\* SELECT id FROM chats WHERE id = %s AND user_id = %s  finds a row.
Owns(u, c) == c \in DOMAIN chats /\ chats[c].user_id = u

Range(q) == {q[i] : i \in 1..Len(q)}

\* The rows of its chat a statement of worker t sees: the committed ones and
\* those of its own transaction.
Visible(t) ==
    {r \in Range(messages) \cup Range(txn[t].rows) : r.chat = txn[t].chat}

\* SELECT role, content FROM messages WHERE chat_id = %s
\* ORDER BY created_at DESC LIMIT 10: every answer the server may give, rows
\* with equal created_at coming in any order.
select_recent(t) ==
    LET V == Visible(t)
        k == IF Cardinality(V) < HistoryLimit THEN Cardinality(V) ELSE HistoryLimit
    IN  {q \in [1..k -> V] :
            /\ \A i, j \in 1..k : i < j =>
                  (q[i] # q[j] /\ q[i].created_at >= q[j].created_at)
            /\ \A r \in V \ Range(q) : \A i \in 1..k : r.created_at <= q[i].created_at}

\* list.reverse()
reverse(q) == [i \in 1..Len(q) |-> q[Len(q) + 1 - i]]

\* send_message up to the INSERT of the user message: 400 when
\* data.get('message') is falsy, 500 when the connection or the ownership
\* SELECT fails, 404 when the SELECT finds no row; otherwise the SELECT has
\* opened the transaction and the user message is inserted.
\* data.get('message') is then any truthy JSON value: a string, or a number,
\* true or a list, which PostgreSQL stores as text all the same.
send_message_save(t) ==
    /\ txn[t].at = "idle"
    /\ \E u \in Users, c \in Chats :
          \/ /\ \E st \in {400, 500} \cup (IF Owns(u, c) THEN {} ELSE {404}) :
                   txn' = [txn EXCEPT ![t] = Answer("send_message", u, c, st)]
             /\ UNCHANGED clock
          \/ /\ Owns(u, c)
             /\ clock < MaxRequests
             /\ \E s \in BOOLEAN :
                   txn' = [txn EXCEPT ![t] =
                             [at |-> "saved", endpoint |-> "send_message",
                              user |-> u, chat |-> c, status |-> 0,
                              title |-> chats[c].title,
                              is_str |-> s, start |-> clock + 1,
                              rows |-> <<Row(c, "user", "message", clock + 1)>>,
                              sent |-> <<>>, max_tokens |-> 0]]
             /\ clock' = clock + 1
    /\ UNCHANGED <<progvars, runs, messages, chats>>

\* The SELECT of the recent messages, reverse(), and the call
\* chat.completions.create(messages=..., max_tokens=1000).
send_message_history(t) ==
    /\ txn[t].at = "saved"
    /\ \E q \in select_recent(t) :
          txn' = [txn EXCEPT ![t].sent = reverse(q),
                             ![t].max_tokens = MaxTokens,
                             ![t].at = "awaiting_ai"]
    /\ UNCHANGED <<progvars, runs, messages, clock, chats>>

\* From the return of chat.completions.create to conn.commit().
\* The call raised: the inner except block inserts the error text.
\* The call returned: the completion is inserted; then, for the first message
\* of a chat titled 'New Chat', the title is made from message_content by
\* len() and slicing, which raise TypeError when it is not a string: the
\* inner except block then inserts the error text as well.
send_message_commit(t) ==
    /\ txn[t].at = "awaiting_ai"
    /\ \E returned \in BOOLEAN :
          LET c == txn[t].chat
              first == txn[t].title = "New Chat" /\ Len(txn[t].sent) = 1
              reply == Row(c, "assistant", "completion", txn[t].start)
              sorry == Row(c, "assistant", ErrorPlaceholder, txn[t].start)
          IN  /\ messages' = messages \o txn[t].rows \o
                    (IF ~returned THEN <<sorry>>
                     ELSE IF first /\ ~txn[t].is_str THEN <<reply, sorry>>
                     ELSE <<reply>>)
              /\ chats' = IF returned /\ first /\ txn[t].is_str
                             THEN [chats EXCEPT ![c].title = "<title>"]
                             ELSE chats
    /\ txn' = [txn EXCEPT ![t] = NoTxn]
    /\ UNCHANGED <<progvars, runs, clock>>

\* A statement raises: conn.rollback() in the except block.
send_message_rollback(t) ==
    /\ txn[t].at \in {"saved", "awaiting_ai"}
    /\ txn' = [txn EXCEPT ![t] = NoTxn]
    /\ UNCHANGED <<progvars, runs, messages, clock, chats>>

\* The chat is referenced by a message another transaction has inserted and
\* not yet committed: the DELETE waits for the row lock of that insert.
Locked(c) ==
    \E w \in Workers : txn[w].at \in {"saved", "awaiting_ai"} /\ txn[w].chat = c

\* Mutant: the chat is deleted without the ownership SELECT.
delete_chat_query_any(t) ==
    /\ txn[t].at = "idle"
    /\ \E u \in Users, c \in Chats :
          \/ /\ txn' = [txn EXCEPT ![t] = Answer("delete_chat", u, c, 500)]
             /\ UNCHANGED <<messages, chats>>
          \/ /\ c \in DOMAIN chats
             /\ ~Locked(c)
             /\ chats' = [d \in DOMAIN chats \ {c} |-> chats[d]]
             /\ messages' = SelectSeq(messages, LAMBDA r : r.chat # c)
             /\ txn' = [txn EXCEPT ![t] = Answer("delete_chat", u, c, 200)]
    /\ UNCHANGED <<progvars, runs, clock>>

\* delete_chat with a connection: the ownership SELECT, then 404, or
\* DELETE FROM chats (the messages go with it, ON DELETE CASCADE) and
\* conn.commit(); 500 with a rollback when a statement raises.
delete_chat_query(t) ==
    /\ txn[t].at = "idle"
    /\ \E u \in Users, c \in Chats :
          \/ /\ \E st \in {500} \cup (IF Owns(u, c) THEN {} ELSE {404}) :
                   txn' = [txn EXCEPT ![t] = Answer("delete_chat", u, c, st)]
             /\ UNCHANGED <<messages, chats>>
          \/ /\ Owns(u, c)
             /\ ~Locked(c)
             /\ chats' = [d \in DOMAIN chats \ {c} |-> chats[d]]
             /\ messages' = SelectSeq(messages, LAMBDA r : r.chat # c)
             /\ txn' = [txn EXCEPT ![t] = Answer("delete_chat", u, c, 200)]
    /\ UNCHANGED <<progvars, runs, clock>>

\* get_messages with a connection: the ownership SELECT, then 404, or the
\* SELECT of the chat's messages; 500 when a statement raises.
get_messages_query(t) ==
    /\ txn[t].at = "idle"
    /\ \E u \in Users, c \in Chats :
          \E st \in {500} \cup (IF Owns(u, c) THEN {200} ELSE {404}) :
             txn' = [txn EXCEPT ![t] = Answer("get_messages", u, c, st)]
    /\ UNCHANGED <<progvars, runs, messages, clock, chats>>

\* The response has been sent.
respond(t) ==
    /\ txn[t].at = "done"
    /\ txn' = [txn EXCEPT ![t] = NoTxn]
    /\ UNCHANGED <<progvars, runs, messages, clock, chats>>

NextHistory ==
    \/ \E t \in Workers : send_message_save(t)
    \/ \E t \in Workers : send_message_history(t)
    \/ \E t \in Workers : send_message_commit(t)
    \/ \E t \in Workers : send_message_rollback(t)
    \/ \E t \in Workers : respond(t)

\* After startup with pool and client Ready, the messages table empty and a
\* chat of each user.
InitHistory ==
    /\ InitConfig
    /\ runs = <<>>
    /\ messages = <<>>
    /\ clock = 0
    /\ txn = [t \in Workers |-> NoTxn]
    /\ chats \in {ch \in [Chats -> [user_id : Users, title : Titles]] :
                    \A c \in Chats : ch[c].user_id = c}

SpecHistory == InitHistory /\ [][NextHistory]_vars

\* The three handlers that take a chat_id, side by side, on a database that
\* already holds one exchange in the first chat.
NextOwnership ==
    \/ \E t \in Workers : send_message_save(t)
    \/ \E t \in Workers : send_message_history(t)
    \/ \E t \in Workers : send_message_commit(t)
    \/ \E t \in Workers : send_message_rollback(t)
    \/ \E t \in Workers : delete_chat_query(t)
    \/ \E t \in Workers : get_messages_query(t)
    \/ \E t \in Workers : respond(t)

InitOwnership ==
    /\ InitConfig
    /\ runs = <<>>
    /\ clock = MaxRequests - 1
    /\ messages = <<Row(1, "user", "message", clock),
                    Row(1, "assistant", "completion", clock)>>
    /\ txn = [t \in Workers |-> NoTxn]
    /\ chats \in {ch \in [Chats -> [user_id : Users, title : Titles]] :
                    \A c \in Chats : ch[c].user_id = c}

SpecOwnership == InitOwnership /\ [][NextOwnership]_vars

\* ================================================================ claims
InHandler ==
    {"register", "login", "get_chats", "create_chat", "delete_chat",
     "get_messages", "send_message", "awaiting_ai", "health_check",
     "in_initialize_database"}

\* The function that acquired `conn` has run to its end.
Returned(t) == pc[t] \in {"done", "initialize_database_returned"}

\* C1: every connection a function obtained with get_db_connection has been
\* given back by release_db_connection exactly once when the function has
\* returned, whatever path it took (success, business error, exception).
C1_ReleasedExactlyOnce ==
    \A t \in AllThreads :
        /\ putcount[t] <= getcount[t]
        /\ Returned(t) => putcount[t] = getcount[t]

\* C2: never more than MaxConn connections are checked out, every lease held
\* is a distinct checked-out connection, a worker is never blocked (a request
\* arriving at a full pool fails with the pool's exhaustion error instead of
\* waiting), and with no request in flight nothing is checked out.
C2_PoolBoundedNoLeak ==
    /\ Cardinality(used) <= MaxConn
    /\ \A t \in AllThreads : pc[t] \in InHandler =>
          /\ conn[t] \in used
          /\ \A u \in AllThreads \ {t} : pc[u] \in InHandler => conn[u] # conn[t]
    /\ pc[Main] = "ready" => \A t \in Workers : ENABLED request(t)
    /\ \A t \in Workers :
          (pc[t] = "done" /\ resp[t].log = "connection pool exhausted")
             => (getcount[t] = 0 /\ resp[t].status = 500)
    /\ (pc[Main] = "ready" /\ \A t \in Workers : pc[t] \in {"idle", "done"})
          => used = {}

\* A request was refused by the full pool while the others hold all of it.
C2_Witness ==
    /\ Cardinality(used) = MaxConn
    /\ \E t \in Workers :
          /\ pc[t] = "done"
          /\ resp[t].log = "connection pool exhausted"
          /\ \A u \in Workers \ {t} : pc[u] \in InHandler

CreatePoolBusy ==
    pc[Main] \in {"cp_for", "cp_construct", "cp_getconn", "cp_close",
                  "cp_putconn", "cp_except"}

\* C3: without a DATABASE_URL create_db_pool returns None at once: it never
\* enters the loop, constructs no pool, does not sleep, leaves db_pool None.
C3_NoUrlReturnsNone ==
    ~Truthy(DATABASE_URL) =>
        /\ ~CreatePoolBusy
        /\ tries = 0
        /\ pools_created = 0
        /\ sleeps = <<>>
        /\ db_pool = None
        /\ result \in {"pending", "None"}
        /\ pc[Main] = "cp_returned" => result = "None"

C3_Witness ==
    /\ ~Truthy(DATABASE_URL)
    /\ pc[Main] = "cp_returned"
    /\ retries > 0

\* C4: when every attempt fails, create_db_pool makes exactly `retries`
\* attempts and then returns None; it never makes more attempts than that.
C4_RetriesThenNone ==
    /\ tries <= retries
    /\ (pc[Main] = "cp_returned" /\ Truthy(DATABASE_URL) /\ failures = tries)
          => (tries = retries /\ result = "None")

C4_Witness ==
    /\ pc[Main] = "cp_returned"
    /\ Truthy(DATABASE_URL)
    /\ failures = tries
    /\ tries = retries
    /\ retries >= 2

C7_StartupDegrades ==
    [][/\ pc[Main] # "ready" => ENABLED startup_sequence
       /\ (pc[Main] # "ready" /\ pc'[Main] = "ready") =>
             /\ result = "None" => db_pool' = None
             /\ clients_created = 0 => openai_client' = None]_vars

\* C8: once startup has completed, db_pool and openai_client keep the value
\* they have, whatever requests are served.
C8_HandlesFinal ==
    [][pc[Main] = "ready" =>
         /\ db_pool' = db_pool
         /\ openai_client' = openai_client
         /\ pc'[Main] = "ready"]_vars

\* Both handles are Ready and a chat request has gone through the AI call.
C8_Witness ==
    /\ pc[Main] = "ready"
    /\ db_pool # None
    /\ openai_client # None
    /\ \E t \in Workers : pc[t] = "done" /\ ai_calls[t] = 1

\* C9: at most one pool object and at most one AI client object are ever
\* created (create_db_pool and initialize_openai_client are each called once,
\* by initialize_services).
C9_AtMostOnePoolAndClient ==
    /\ pools_created <= 1
    /\ clients_created <= 1

C11_VerifiedBeforeReady ==
    openai_client # None => ai_calls[Main] = 1

\* C12: a send_message request calls the AI service at most once: while the
\* call is in flight and after it has returned or failed the count is one,
\* and no other view function calls it at all.
C12_SingleAICall ==
    \A t \in Workers :
        /\ ai_calls[t] <= 1
        /\ pc[t] = "awaiting_ai" => ai_calls[t] = 1
        /\ ai_calls[t] = 1 => endpoint[t] = "send_message"

\* A request whose AI call failed has answered with the error placeholder.
C12_Witness ==
    \E t \in Workers :
        /\ pc[t] = "done"
        /\ ai_calls[t] = 1
        /\ resp[t].log = "AI response error"

\* C13: a send_message request that called the AI service ends in one of
\* three ways: 201 with the completion; 201 with the error placeholder as the
\* assistant reply, the failure logged; or an error response (500, or the
\* decorator's 401 when the rollback raises) with its cause logged. It never
\* ends 201 without an assistant reply.
C13_AIFailureSurfaced ==
    \A t \in Workers :
        (pc[t] = "done" /\ endpoint[t] = "send_message" /\ ai_calls[t] = 1) =>
            \/ /\ resp[t].status = 201
               /\ resp[t].body = "<completion>"
            \/ /\ resp[t].status = 201
               /\ resp[t].body = "Sorry, I encountered an error processing your request."
               /\ resp[t].log = "AI response error"
            \/ /\ resp[t].status \in {401, 500}
               /\ resp[t].body \in {"Failed to send message", "Invalid token"}
               /\ resp[t].log # ""

\* The AI call failed and the request was answered 201 with the placeholder.
C13_Witness ==
    \E t \in Workers :
        /\ pc[t] = "done"
        /\ endpoint[t] = "send_message"
        /\ ai_calls[t] = 1
        /\ resp[t].status = 201
        /\ resp[t].body = "Sorry, I encountered an error processing your request."

\* C14: the answer to a request refused by the full pool differs, in status
\* or body, from the answer the same endpoint gives for a failed statement.
C14_ExhaustionDistinct ==
    \A t, u \in Workers :
        (/\ pc[t] = "done" /\ pc[u] = "done"
         /\ endpoint[t] = endpoint[u]
         /\ resp[t].log = "connection pool exhausted"
         /\ resp[u].log = "database error")
            => <<resp[t].status, resp[t].body>> # <<resp[u].status, resp[u].body>>

\* C15: with DATABASE_URL unset and a client Ready, an authenticated chat
\* request is answered 201 with the AI service's completion.
C15_ChatWithoutDatabase ==
    (~Truthy(DATABASE_URL) /\ openai_client # None) =>
        \A t \in Workers :
            (pc[t] = "done" /\ endpoint[t] = "send_message" /\ resp[t].status # 401)
                => (resp[t].status = 201 /\ resp[t].body = "<completion>")

\* C16: with a DATABASE_URL whose host cannot be reached (no pool after
\* startup) and no OPENAI_API_KEY, the answer served at /health carries the
\* services report saying that the database is disconnected.
C16_HealthReportsUnavailable ==
    (/\ pc[Main] = "ready"
     /\ Truthy(DATABASE_URL) /\ db_pool = None
     /\ ~Truthy(OPENAI_API_KEY) /\ openai_client = None) =>
        \A t \in Workers :
            (pc[t] = "done" /\ endpoint[t] = "health_check_route")
                => resp[t].log = "database: disconnected"

\* C17: the body of an error response (status 400 and above) is never the
\* text of an exception.
C17_NoExceptionTextInBody ==
    \A t \in Workers :
        (pc[t] = "done" /\ resp[t].status >= 400) => resp[t].body \notin ExceptionText

\* C18: two runs in which the same variables are set and the database fails
\* in the same way log the same lines and give the same /status answer,
\* whatever the values of DATABASE_URL and OPENAI_API_KEY.
C18_SecretsDoNotShow ==
    \A r1, r2 \in DOMAIN runs :
        (/\ runs[r1].at = "served" /\ runs[r2].at = "served"
         /\ TruthyStr(runs[r1].env_url) = TruthyStr(runs[r2].env_url)
         /\ TruthyStr(runs[r1].env_key) = TruthyStr(runs[r2].env_key)
         /\ runs[r1].err = runs[r2].err)
            => (runs[r1].log = runs[r2].log /\ runs[r1].status = runs[r2].status)

\* C19: the URL the configuration leaves in DATABASE_URL is the environment's
\* with a leading 'postgres://' replaced by 'postgresql://' and nothing else
\* changed, any other value is left as it is, and rewriting the result again
\* changes nothing.
C19_NormalizeIdempotent ==
    \A r \in DOMAIN runs :
        runs[r].at # "import" =>
            LET url == runs[r].env_url
                fixed == runs[r].DATABASE_URL
            IN  /\ fixed = IF TruthyStr(url) /\ startswith(url, Legacy)
                              THEN Current \o SubSeq(url, Len(Legacy) + 1, Len(url))
                              ELSE url
                /\ fix_database_url(fixed) = fixed

\* A URL in which 'postgres://' occurs a second time has been configured.
C19_Witness ==
    \E r \in DOMAIN runs :
        /\ runs[r].at # "import"
        /\ startswith(runs[r].env_url, Legacy)
        /\ find(SubSeq(runs[r].env_url, 2, Len(runs[r].env_url)), Legacy) # 0

\* Row a was stored before row b: in an earlier transaction, or in the same
\* one, where the user message is inserted before the assistant's.
Earlier(a, b) ==
    \/ a.created_at < b.created_at
    \/ a.created_at = b.created_at /\ a.role = "user" /\ b.role = "assistant"

\* C20: what send_message passes to the AI service is at most HistoryLimit
\* messages, all of the requested chat, in the order they were stored, the
\* last one being the user message this request has just saved, with
\* max_tokens = 1000.
C20_BoundedHistory ==
    \A t \in DOMAIN txn :
        txn[t].at = "awaiting_ai" =>
            LET h == txn[t].sent
            IN  /\ Len(h) \in 1..HistoryLimit
                /\ txn[t].max_tokens = MaxTokens
                /\ \A i \in 1..Len(h) : h[i].chat = txn[t].chat
                /\ h[Len(h)] = Row(txn[t].chat, "user", "message", txn[t].start)
                /\ \A i, j \in 1..Len(h) : i < j => Earlier(h[i], h[j])

\* C21: while the database pool is absent (db_pool is None after startup), a
\* request to register, login, get_chats, create_chat, delete_chat,
\* get_messages or send_message that passes the token check is answered
\* 503 'Database not available'; no worker ever holds or has asked for a
\* connection, none has called the AI service, and every worker that has
\* answered can take the next request.
DbEndpoints ==
    {"register", "login", "get_chats", "create_chat", "delete_chat",
     "get_messages", "send_message"}

C21_NoPoolAnswers503 ==
    []((pc[Main] = "ready" /\ db_pool = None) =>
          /\ used = {}
          /\ \A t \in Workers :
                /\ pc[t] \in {"idle", "done"}
                /\ conn[t] = None /\ getcount[t] = 0 /\ ai_calls[t] = 0
                /\ (pc[t] = "done" /\ endpoint[t] \in DbEndpoints) =>
                      /\ resp[t] \in {Response(503, "Database not available", "")}
                                    \cup token_required(endpoint[t] \notin {"register", "login"})
                      /\ ENABLED finish(t)
                /\ pc[t] = "idle" => ENABLED send_message(t))

\* A chat request answered 503 with an AI client present, while another worker
\* has already answered a register request the same way.
C21_Witness ==
    /\ pc[Main] = "ready" /\ db_pool = None /\ openai_client # None
    /\ \E t, u \in Workers :
          /\ t # u
          /\ pc[t] = "done" /\ endpoint[t] = "send_message"
          /\ resp[t] = Response(503, "Database not available", "")
          /\ pc[u] = "done" /\ endpoint[u] = "register"
          /\ resp[u] = Response(503, "Database not available", "")

\* C22: whenever create_db_pool has returned None, the global db_pool is None:
\* a pool that was constructed but whose probe failed is not left bound to the
\* name that get_db_connection and the handlers read.
C22_FailedPoolNotVisible ==
    (pc[Main] = "cp_returned" /\ result = "None") => db_pool = None

\* C23: the committed messages of one send_message request (one chat, one
\* created_at) are a user message together with exactly one assistant
\* message, or nothing at all.
Stored(c, ts, role) ==
    {i \in 1..Len(messages) :
        /\ messages[i].chat = c
        /\ messages[i].created_at = ts
        /\ messages[i].role = role}

C23_SendMessageAtomic ==
    \A c \in Chats, ts \in 1..MaxRequests :
        \/ Stored(c, ts, "user") = {} /\ Stored(c, ts, "assistant") = {}
        \/ /\ Cardinality(Stored(c, ts, "user")) = 1
           /\ Cardinality(Stored(c, ts, "assistant")) = 1

\* C24: a send_message request that is waiting for the AI service holds the
\* connection it acquired before the call and has not given it back; the
\* connections of two such requests are different ones; and when as many
\* requests as the pool has connections are waiting, get_db_connection
\* succeeds for nobody.
AwaitingAI == {t \in Workers : pc[t] = "awaiting_ai"}

C24_LeaseHeldDuringAICall ==
    [](/\ \A t \in AwaitingAI :
             /\ endpoint[t] = "send_message"
             /\ conn[t] # None /\ conn[t] \in used
             /\ getcount[t] = 1 /\ putcount[t] = 0
             /\ ai_calls[t] = 1
             /\ \A u \in AwaitingAI \ {t} : conn[u] # conn[t]
       /\ Cardinality(AwaitingAI) <= MaxConn
       /\ Cardinality(AwaitingAI) = MaxConn => \A g \in get_db_connection : ~g.ok)

\* The pool's maxconn requests are waiting for the AI service, and one more
\* request has been refused a connection.
C24_Witness ==
    /\ Cardinality(AwaitingAI) = MaxConn
    /\ \E u \in Workers \ AwaitingAI :
          /\ pc[u] = "done"
          /\ resp[u].status = 500
          /\ resp[u].log = "connection pool exhausted"

\* C25: a request of delete_chat, get_messages or send_message for a chat its
\* user does not own never reaches the AI service and leaves the chats and
\* messages tables as they are; it is answered 404 'Chat not found' once the
\* ownership query has run, 500 when the connection or that query fails, and
\* by send_message 400 when the message content is missing.
Arrives(t) == txn[t].at = "idle" /\ txn'[t].at # "idle"

====
